---------------------------- MODULE Spec2Model ----------------------------
(***************************************************************************)
(* Dataset construction of bitboost (src/src/data.rs): Data::from_csv,     *)
(* the per-round Dataset (bagging, feature sub-selection, the three        *)
(* preprocessing strategies) and the bitsets it leaves in the store.       *)
(*                                                                         *)
(* Conventions.                                                            *)
(*  - A Rust Vec or slice is a function with domain 0..len-1, so that      *)
(*    every index of the model is the index of the code.                   *)
(*  - NumT (f32) is modelled by exact numbers: a value read from a csv     *)
(*    text, a mean, a bin edge and a rank threshold are fractions          *)
(*    <<numerator, denominator>> with a positive denominator (a value of a *)
(*    text may also be an infinity or a NaN), a gradient is an integer.    *)
(*    Rounding of f32 arithmetic is not modelled.                          *)
(*  - Binner, BitBlockStore and simd::or_assign are used by data.rs but    *)
(*    are not part of the sources at hand; they are modelled from their    *)
(*    description and from the expectations of the tests of data.rs.       *)
(***************************************************************************)
EXTENDS Integers, Sequences, FiniteSets, TLC

(***************************************************************************)
(* Bounds of the model.                                                    *)
(***************************************************************************)
\* rows of the csv
NRows == 4
\* feature columns of the csv (the target column comes after them)
NFeat == 1
\* config.max_nbins
MaxNBins == 2
\* gradient values range over -MaxGrad..MaxGrad
MaxGrad == 1
\* length of bins_buffer_u32 and bins_buffer_numt (1024 in the code)
BinsLen == 3
\* bits per block of the store
BlockBits == 2
\* a fraction of the config is a numerator over FracDen
FracDen == 3
\* config.random_seed is one of MaxSeed + 1 seeds
MaxSeed == 2
\* the seeds tried are the multiples of SeedStep
SeedStep == 13
\* largest number of feature columns reservoir_sample is given on its own
NPop == 4

(***************************************************************************)
(* Program constants.                                                      *)
(***************************************************************************)
\* 1 / EPSILON, EPSILON = f32::EPSILON = 2^-23
EPSILON_INV == 8388608
\* reservoir_sample is seeded with random_seed + 10
FEAT_SEED_OFFSET == 10
\* stands for u32::MAX, the value of 0u32 - 1 without overflow checks and of a
\* NumT too large for a CatT cast to CatT; it is only ever compared with sums
\* of at most NRows counts and with category values, and 1 is added to it
U32_MAX == 1048575

(***************************************************************************)
(* Vectors and fractions.                                                  *)
(***************************************************************************)
Len0(v) == Cardinality(DOMAIN v)

Range0(v) == {v[i] : i \in DOMAIN v}

Min2(a, b) == IF a < b THEN a ELSE b

Max2(a, b) == IF a < b THEN b ELSE a

\* a < b for fractions
FracLt(a, b) == a[1] * b[2] < b[1] * a[2]

\* a <= b for fractions
FracLe(a, b) == a[1] * b[2] <= b[1] * a[2]

\* a NumT read from a text is a fraction <<num, den>>, den > 0, an infinity or
\* a NaN
POS_INF == <<1, 0>>

NEG_INF == <<-1, 0>>

is_nan(x) == x = <<0, 0>>

\* a < b on NumT
NumLt(a, b) ==
    IF a[2] # 0 /\ b[2] # 0 THEN FracLt(a, b)
    ELSE /\ ~is_nan(a)
         /\ ~is_nan(b)
         /\ a # b
         /\ (a = NEG_INF \/ b = POS_INF)

\* f32::min and f32::max: the other one when one is a NaN
numt_min(a, b) ==
    IF is_nan(a) THEN b ELSE IF is_nan(b) THEN a ELSE IF NumLt(b, a) THEN b ELSE a

numt_max(a, b) ==
    IF is_nan(a) THEN b ELSE IF is_nan(b) THEN a ELSE IF NumLt(a, b) THEN b ELSE a

\* value.round() != value
round_differs(value) ==
    \/ is_nan(value)
    \/ value[2] # 0 /\ value[1] % value[2] # 0

\* f32::round of num/den >= 0: to the nearest integer, halves away from zero
Round(num, den) == (2 * num + den) \div (2 * den)

\* slice::sort_unstable: entry i is the i-th order statistic of v
sort_unstable(v) ==
    [i \in DOMAIN v |->
        CHOOSE x \in Range0(v) :
            /\ Cardinality({j \in DOMAIN v : v[j] < x}) <= i
            /\ Cardinality({j \in DOMAIN v : v[j] <= x}) > i]


(***************************************************************************)
(* Data::from_csv.  csv is the vector of the records read, each a vector   *)
(* of fields.  A field is the text of a number, written as the NumT it     *)
(* parses to, or <<>>, a text that is no number.  The last column is the   *)
(* target.                                                                 *)
(***************************************************************************)
\* into_cat: x as CatT, which truncates towards zero and saturates
into_cat(x) ==
    IF x[2] = 0 THEN IF x = POS_INF THEN U32_MAX ELSE 0
    ELSE IF x[1] < 0 THEN 0
    ELSE Min2(x[1] \div x[2], U32_MAX)

\* x.parse::<NumT>().ok() is Some
parses(x) == x # <<>>

\* the column types FeatType
LoCardCat == "LoCardCat"

HiCardCat == "HiCardCat"

Numerical == "Numerical"

\* the field is a number that a column marked categorical does not take
invalid_categorical(config, value, i) ==
    /\ i \in config.categorical_features
    /\ parses(value)
    /\ (round_differs(value) \/ NumLt(value, <<0, 1>>))

\* the first record, and in it the first field, that from_csv rejects: a
\* text that is no number, or a value that is negative or no integer in a
\* column marked categorical; <<>> when there is none
csv_first_error(config, csv) ==
    LET record_len == Len0(csv[0])
        bad(r, i) == \/ ~parses(csv[r][i])
                     \/ invalid_categorical(config, csv[r][i], i)
        badrec == {r \in DOMAIN csv : \E i \in 0..record_len-1 : bad(r, i)}
    IN  IF badrec = {} THEN <<>>
        ELSE LET r == CHOOSE q \in badrec : \A o \in badrec : q <= o
                 fs == {i \in 0..record_len-1 : bad(r, i)}
             IN  <<r, CHOOSE i \in fs : \A o \in fs : i <= o>>

\* cards[i] after the records: 0 unless the column is marked categorical
csv_card(config, csv, i) ==
    IF i \in config.categorical_features
    THEN CHOOSE c \in {1 + into_cat(csv[r][i]) : r \in DOMAIN csv} :
             \A r \in DOMAIN csv : 1 + into_cat(csv[r][i]) <= c
    ELSE 0

\* ftypes[i]: LoCardCat for a column marked categorical, turned into
\* HiCardCat when its cardinality exceeds max_nbins
csv_ftype(config, csv, i) ==
    IF i \in config.categorical_features
    THEN IF csv_card(config, csv, i) > config.max_nbins THEN HiCardCat
         ELSE LoCardCat
    ELSE Numerical

\* limits[i] after the records from r on, l being what it is before them
RECURSIVE csv_limits(_, _, _, _)
csv_limits(csv, i, r, l) ==
    IF r >= Len0(csv) THEN l
    ELSE csv_limits(csv, i, r + 1,
                    <<numt_min(l[1], csv[r][i]), numt_max(l[2], csv[r][i])>>)

\* the messages of the errors
NumberError == "number error at record"

InvalidCategorical == "Invalid categorical value at record"

from_csv(config, csv) ==
    LET record_count == Len0(csv)
        record_len == Len0(csv[0])
        err == csv_first_error(config, csv)
        column(i) == [r \in 0..record_count-1 |-> csv[r][i]]
    IN  IF err # <<>>
        THEN [ok |-> FALSE,
              error |-> IF parses(csv[err[1]][err[2]]) THEN InvalidCategorical
                        ELSE NumberError,
              record |-> err[1]]
        ELSE [ok |-> TRUE,
              nfeatures |-> record_len - 1,
              nexamples |-> record_count,
              features |-> [i \in 0..record_len-1 |-> column(i)],
              limits |-> [i \in 0..record_len-1 |->
                              csv_limits(csv, i, 0, <<POS_INF, NEG_INF>>)],
              ftypes |-> [i \in 0..record_len-1 |-> csv_ftype(config, csv, i)],
              cards |-> [i \in 0..record_len-1 |-> csv_card(config, csv, i)]]

(***************************************************************************)
(* The random generator.  SmallRng::seed_from_u64(seed) is a fixed         *)
(* function of the seed; draw j of the stream of a seed is digit j of the  *)
(* seed in base RngMod, so that the seeds 0..RngMod^MaxDraws-1 produce     *)
(* every sequence of MaxDraws draws.  gen_range(0, n) reduces a draw to    *)
(* 0..n-1.                                                                 *)
(***************************************************************************)
RngMod == Max2(Max2(NRows, NFeat), NPop)

MaxDraws == RngMod

RECURSIVE Pow(_, _)
Pow(b, e) == IF e = 0 THEN 1 ELSE b * Pow(b, e - 1)

gen_range(seed, j, n) == ((seed \div Pow(RngMod, j)) % RngMod) % n

(***************************************************************************)
(* Bagging and feature sub-selection, each filling the buffer it is given. *)
(***************************************************************************)
\* sample without its sort_unstable
sample_unsorted(n, buffer, seed) ==
    [i \in DOMAIN buffer |-> gen_range(seed, i, n)]

\* sample(n, buffer, seed)
sample(n, buffer, seed) ==
    sort_unstable([i \in DOMAIN buffer |-> gen_range(seed, i, n)])

\* bagging without the test n == k
bagging_always_samples(n, buffer, seed) == sample(n, buffer, seed)

\* the bagging of construct_again_no_reset: every row in order when the buffer
\* has one entry per row, a sample otherwise
bagging(n, buffer, seed) ==
    IF n = Len0(buffer) THEN [i \in DOMAIN buffer |-> i]
    ELSE sample(n, buffer, seed)

\* the loop of reservoir_sample from index i on; the draw for index i is draw
\* i - k of the stream, as no draw is made while i < k
RECURSIVE reservoir_loop(_, _, _, _)
reservoir_loop(i, n, buffer, seed) ==
    LET k == Len0(buffer)
        r == gen_range(seed, i - k, i + 1)
    IN  IF i >= n THEN buffer
        ELSE IF i < k
             THEN reservoir_loop(i + 1, n, [buffer EXCEPT ![i] = i], seed)
             ELSE IF r < k
                  THEN reservoir_loop(i + 1, n, [buffer EXCEPT ![r] = i], seed)
                  ELSE reservoir_loop(i + 1, n, buffer, seed)

\* reservoir_sample without its sort_unstable
reservoir_sample_unsorted(n, buffer, seed) == reservoir_loop(0, n, buffer, seed)

\* reservoir_sample(n, buffer, seed)
reservoir_sample(n, buffer, seed) ==
    sort_unstable(reservoir_loop(0, n, buffer, seed))

(***************************************************************************)
(* BitBlockStore: a growable vector of blocks of BlockBits bits, a block   *)
(* being the set of the positions of its bits that are set.  A SliceRange  *)
(* is <<first block, one past the last block>>.                            *)
(***************************************************************************)
\* BitBlockStore::new
store_new == <<>>

\* BitBlockStore::reset
store_reset(st) == <<>>

blocks_required_for(nbits) == (nbits + BlockBits - 1) \div BlockBits

\* alloc_zero_bits: the store with the new zero blocks, and their range
alloc_zero_bits(st, nbits) ==
    LET len == Len0(st)
        nb == blocks_required_for(nbits)
    IN  [store |-> [b \in 0..len+nb-1 |-> IF b < len THEN st[b] ELSE {}],
         range |-> <<len, len + nb>>]

\* bit i of the bitvec of a range
get_bit(st, range, i) ==
    (i % BlockBits) \in st[range[1] + (i \div BlockBits)]

\* BitVecMut::enable_bit
enable_bit(st, range, i) ==
    [st EXCEPT ![range[1] + (i \div BlockBits)] = @ \cup {i % BlockBits}]

\* simd::or_assign over the views of get_two_bitvecs_mut(r0, r1):
\* bv1 |= bv0, block by block
or_assign(st, r1, r0) ==
    [b \in DOMAIN st |->
        IF b >= r1[1] /\ b < r1[2] /\ r0[1] + (b - r1[1]) < r0[2]
        THEN st[b] \cup st[r0[1] + (b - r1[1])]
        ELSE st[b]]

(***************************************************************************)
(* Binner over the bins buffer with limits lims = <<lo, hi>>, two finite   *)
(* NumT: bin b covers                                                      *)
(* [lo + b * delta, lo + (b+1) * delta), delta = (hi - lo) / nbins.        *)
(***************************************************************************)
\* the bin of the value v (a fraction), clamped into 0..nbins-1
get_bin(lims, nbins, v) ==
    LET lo == lims[1]
        hi == lims[2]
        width == v[2] * (hi[1] * lo[2] - lo[1] * hi[2])
        b == ((v[1] * lo[2] - lo[1] * v[2]) * nbins * hi[2]) \div width
    IN  IF width = 0 THEN 0 ELSE Max2(0, Min2(nbins - 1, b))

\* Binner::insert with the combiner *bin += d
binner_insert(bins, lims, v, d) ==
    [bins EXCEPT ![get_bin(lims, Len0(bins), v)] = @ + d]

\* Binner::bin_representative: the lower edge of the bin, as a fraction (the
\* split values that test::dataset_num1 expects leave out the values of the
\* bin in which a rank is reached)
bin_representative(lims, nbins, bin) ==
    LET lo == lims[1]
        hi == lims[2]
    IN  <<lo[1] * hi[2] * nbins + bin * (hi[1] * lo[2] - lo[1] * hi[2]),
          lo[2] * hi[2] * nbins>>

\* Binner::rank_iter: one scan of the bins for all the ranks (fractions), bin
\* and accum being where the scan stands; for each rank the first bin at which
\* the accumulated value reaches it (the last bin if none does)
RECURSIVE rank_scan(_, _, _, _)
rank_scan(bins, bin, accum, rank) ==
    IF accum * rank[2] < rank[1] /\ bin + 1 < Len0(bins)
    THEN rank_scan(bins, bin + 1, accum + bins[bin + 1], rank)
    ELSE <<bin, accum>>

RECURSIVE rank_iter_from(_, _, _, _, _)
rank_iter_from(bins, ranks, j, bin, accum) ==
    IF j >= Len0(ranks) THEN <<>>
    ELSE LET at == rank_scan(bins, bin, accum, ranks[j])
         IN  <<at[1]>> \o rank_iter_from(bins, ranks, j + 1, at[1], at[2])

\* the bins yielded, in the order of the ranks (a sequence)
rank_iter(bins, ranks) == rank_iter_from(bins, ranks, 0, 0, bins[0])

(***************************************************************************)
(* Helpers of the preprocessing.                                           *)
(***************************************************************************)
\* Vec::push
Push(v, x) == [i \in 0..Len0(v) |-> IF i < Len0(v) THEN v[i] ELSE x]

\* that loop without the test bin == last_bin
RECURSIVE dedup_bins_keeps_all(_, _, _, _, _, _)
dedup_bins_keeps_all(qbins, j, last_bin, lims, nbins, acc) ==
    IF j > Len(qbins) THEN acc
    ELSE dedup_bins_keeps_all(qbins, j + 1, qbins[j], lims, nbins,
                              Push(acc, bin_representative(lims, nbins, qbins[j])))

\* the loop over qbins of preprocess_hicard_cat and preprocess_num: a bin equal
\* to last_bin is skipped, any other is pushed as its representative
RECURSIVE dedup_bins(_, _, _, _, _, _)
dedup_bins(qbins, j, last_bin, lims, nbins, acc) ==
    IF j > Len(qbins) THEN acc
    ELSE IF qbins[j] = last_bin
         THEN dedup_bins(qbins, j + 1, last_bin, lims, nbins, acc)
         ELSE dedup_bins(qbins, j + 1, qbins[j], lims, nbins,
                         Push(acc, bin_representative(lims, nbins, qbins[j])))

\* the closure with x <= mean for x < mean
cmp_less_or_equal(s, x) == IF FracLe(s, x) THEN "Less" ELSE "Greater"

\* the closure given to binary_search_by: never Equal
cmp_less_or_greater(s, x) == IF FracLt(s, x) THEN "Less" ELSE "Greater"

\* slice::binary_search_by with that closure: <<"Ok", i>> or <<"Err", i>>
RECURSIVE binary_search_loop(_, _, _, _)
binary_search_loop(v, x, base, size) ==
    IF size > 1
    THEN LET half == size \div 2
             mid == base + half
         IN  binary_search_loop(v, x,
                 IF cmp_less_or_greater(v[mid], x) = "Greater" THEN base ELSE mid,
                 size - half)
    ELSE LET cmp == cmp_less_or_greater(v[base], x)
         IN  IF cmp = "Equal" THEN <<"Ok", base>>
             ELSE <<"Err", base + (IF cmp = "Less" THEN 1 ELSE 0)>>

binary_search_by(v, x) ==
    IF Len0(v) = 0 THEN <<"Err", 0>> ELSE binary_search_loop(v, x, 0, Len0(v))

\* the numt2cat closures: the index at which the search ends
numt2cat(splits, x) == binary_search_by(splits, x)[2]

(***************************************************************************)
(* construct_bitvecs and transform_bitvecs_to_ord.  cats[i] is the         *)
(* category numt2cat gives to item i of the iterator.                      *)
(***************************************************************************)
\* that loop with alloc_zero_bits(card) for alloc_zero_bits(nexamples)
RECURSIVE alloc_bitvecs_card_bits(_, _, _, _)
alloc_bitvecs_card_bits(st, nexamples, card, bitvecs) ==
    IF Len0(bitvecs) >= card THEN [store |-> st, bitvecs |-> bitvecs]
    ELSE LET a == alloc_zero_bits(st, card)
         IN  alloc_bitvecs_card_bits(a.store, nexamples, card, Push(bitvecs, a.range))

\* the loop pushing card ranges of nexamples zero bits
RECURSIVE alloc_bitvecs(_, _, _, _)
alloc_bitvecs(st, nexamples, card, bitvecs) ==
    IF Len0(bitvecs) >= card THEN [store |-> st, bitvecs |-> bitvecs]
    ELSE LET a == alloc_zero_bits(st, nexamples)
         IN  alloc_bitvecs(a.store, nexamples, card, Push(bitvecs, a.range))

\* that loop with a category of card or more counted in the last bitset
RECURSIVE enable_bits_last_bucket(_, _, _, _, _)
enable_bits_last_bucket(st, bitvecs, card, cats, i) ==
    IF i >= Len0(cats) THEN st
    ELSE IF card > 0
         THEN enable_bits_last_bucket(
                  enable_bit(st, bitvecs[Min2(cats[i], card - 1)], i), bitvecs,
                  card, cats, i + 1)
         ELSE enable_bits_last_bucket(st, bitvecs, card, cats, i + 1)

\* the loop over the iterator: the bit of item i is set in the bitset of its
\* category when the category is below card
RECURSIVE enable_bits(_, _, _, _, _)
enable_bits(st, bitvecs, card, cats, i) ==
    IF i >= Len0(cats) THEN st
    ELSE IF cats[i] < card
         THEN enable_bits(enable_bit(st, bitvecs[cats[i]], i), bitvecs, card,
                          cats, i + 1)
         ELSE enable_bits(st, bitvecs, card, cats, i + 1)

construct_bitvecs(st, nexamples, card, cats) ==
    LET a == alloc_bitvecs(st, nexamples, card, <<>>)
    IN  [store |-> enable_bits(a.store, a.bitvecs, card, cats, 0),
         bitvecs |-> a.bitvecs]

\* the pairs (bitvecs[i], bitvecs[i+1]) from i on, in ascending order
RECURSIVE transform_from(_, _, _)
transform_from(st, bitvecs, i) ==
    IF i + 1 >= Len0(bitvecs) THEN st
    ELSE transform_from(or_assign(st, bitvecs[i + 1], bitvecs[i]), bitvecs, i + 1)

\* transform_bitvecs_to_ord with bv0 |= bv1 for bv1 |= bv0
RECURSIVE transform_wrong_way(_, _)
transform_wrong_way(st, bitvecs) ==
    IF Len0(bitvecs) < 2 THEN st
    ELSE or_assign(
             transform_wrong_way(st, [i \in 0..Len0(bitvecs)-2 |-> bitvecs[i + 1]]),
             bitvecs[0], bitvecs[1])

\* the pairs (bitvecs[i], bitvecs[i+1]) from i down, in descending order
RECURSIVE transform_down_from(_, _, _)
transform_down_from(st, bitvecs, i) ==
    IF i < 0 THEN st
    ELSE transform_down_from(or_assign(st, bitvecs[i + 1], bitvecs[i]), bitvecs, i - 1)

\* transform_bitvecs_to_ord with the pairs visited last to first
transform_descending(st, bitvecs) ==
    transform_down_from(st, bitvecs, Len0(bitvecs) - 2)

transform_bitvecs_to_ord(st, bitvecs) == transform_from(st, bitvecs, 0)

(***************************************************************************)
(* The Dataset.  ds is the record of its fields; d is the Data and g the   *)
(* gradient slice it borrows.                                              *)
(***************************************************************************)
\* Vec::resize
resize(v, n, fill) == [i \in 0..n-1 |-> IF i < Len0(v) THEN v[i] ELSE fill]

\* Dataset::new
Dataset_new(max_nbins_) ==
    [max_nbins |-> max_nbins_,
     gradient_lims |-> <<0, 0>>,
     feat_sel |-> <<>>,
     example_sel |-> <<>>,
     store |-> store_new,
     bitvecs |-> <<>>,
     super_categories |-> <<>>,
     split_values |-> <<>>,
     bins_buffer_u32 |-> [b \in 0..BinsLen-1 |-> 0],
     bins_buffer_numt |-> [b \in 0..BinsLen-1 |-> 0],
     panicked |-> FALSE]

\* that reset without self.bitvecs.clear()
reset_keeps_bitvecs(ds) ==
    [ds EXCEPT !.feat_sel = <<>>,
               !.example_sel = <<>>,
               !.store = store_reset(ds.store),
               !.super_categories = <<>>,
               !.split_values = <<>>]

\* Dataset::reset
reset(ds) ==
    [ds EXCEPT !.feat_sel = <<>>,
               !.example_sel = <<>>,
               !.store = store_reset(ds.store),
               !.bitvecs = <<>>,
               !.super_categories = <<>>,
               !.split_values = <<>>]

\* the fold of construct_again_no_reset over the gradients of example_sel
RECURSIVE fold_lims(_, _, _, _)
fold_lims(example_sel_, g, p, a) ==
    IF p >= Len0(example_sel_) THEN a
    ELSE fold_lims(example_sel_, g, p + 1,
                   <<Min2(a[1], g[example_sel_[p]]), Max2(a[2], g[example_sel_[p]])>>)

compute_gradient_lims(example_sel_, g) == fold_lims(example_sel_, g, 0, <<0, 0>>)

\* the limits of the Binner over gradient_lims, which holds whole numbers
numt_lims(lims) == <<<<lims[1], 1>>, <<lims[2], 1>>>>

\* preprocess_locard_cat followed by transform_bitvecs_to_ord, as the other
\* two preprocessors are
preprocess_locard_cat_ord(ds, d, feat_id) ==
    LET n == Len0(ds.example_sel)
        col == d.features[feat_id]
        card == d.cards[feat_id]
        cats == [p \in 0..n-1 |-> into_cat(col[ds.example_sel[p]])]
        cb == construct_bitvecs(ds.store, n, card, cats)
    IN  [ds EXCEPT !.store = transform_bitvecs_to_ord(cb.store, cb.bitvecs),
                   !.bitvecs[feat_id] = cb.bitvecs]

\* Dataset::preprocess_locard_cat
preprocess_locard_cat(ds, d, feat_id) ==
    LET n == Len0(ds.example_sel)
        col == d.features[feat_id]
        card == d.cards[feat_id]
        cats == [p \in 0..n-1 |-> into_cat(col[ds.example_sel[p]])]
        cb == construct_bitvecs(ds.store, n, card, cats)
    IN  [ds EXCEPT !.store = cb.store, !.bitvecs[feat_id] = cb.bitvecs]

(***************************************************************************)
(* Dataset::preprocess_hicard_cat.                                         *)
(***************************************************************************)
\* the loop collecting (gradient sum, count) per category: item p of the
\* enumeration adds gradient[p]
RECURSIVE grad_stat_loop(_, _, _, _, _)
grad_stat_loop(col, example_sel_, g, p, pairs) ==
    IF p >= Len0(example_sel_) THEN pairs
    ELSE LET category == into_cat(col[example_sel_[p]])
         IN  grad_stat_loop(col, example_sel_, g, p + 1,
                 [pairs EXCEPT ![category] = <<@[1] + g[p], @[2] + 1>>])

grad_stat_pairs(col, card, example_sel_, g) ==
    grad_stat_loop(col, example_sel_, g, 0, [c \in 0..card-1 |-> <<0, 0>>])

\* the entry of a category after the loop over grad_stat_pairs: its sum is
\* divided by its count unless the count is 0
category_mean(pair) == IF pair[2] # 0 THEN <<pair[1], pair[2]>> ELSE <<pair[1], 1>>

\* that loop: the mean of every category with a count is inserted with its count
RECURSIVE insert_means(_, _, _, _)
insert_means(pairs, c, bins, lims) ==
    IF c >= Len0(pairs) THEN bins
    ELSE IF pairs[c][2] # 0
         THEN insert_means(pairs, c + 1,
                  binner_insert(bins, lims, category_mean(pairs[c]), pairs[c][2]),
                  lims)
         ELSE insert_means(pairs, c + 1, bins, lims)

\* (i as NumT * rank_step).round() as u32, rank_step = n / (max_nbins + 1)
hicard_rank_rounded(n, max_nbins_, i) == Round(i * n, max_nbins_ + 1)

\* x - 1 on u32 without overflow checks
u32_sub_one(x) == IF x >= 1 THEN x - 1 ELSE U32_MAX

\* the ranks given to rank_iter, as fractions
hicard_ranks(n, max_nbins_) ==
    [i \in 0..max_nbins_-1 |->
        <<u32_sub_one(hicard_rank_rounded(n, max_nbins_, i + 1)), 1>>]

\* some rank is 0 - 1: a panic when the build checks overflow
hicard_rank_overflows(n, max_nbins_) ==
    \E i \in 1..max_nbins_ : hicard_rank_rounded(n, max_nbins_, i) = 0

\* the boundaries split_weights
hicard_split_weights(bins, lims, n, max_nbins_) ==
    dedup_bins(rank_iter(bins, hicard_ranks(n, max_nbins_)), 1, -1, lims,
               Len0(bins), <<>>)

\* the bins of the Binner once the means are inserted
hicard_bins(ds, d, g, feat_id) ==
    insert_means(grad_stat_pairs(d.features[feat_id], d.cards[feat_id],
                                 ds.example_sel, g),
                 0, [b \in DOMAIN ds.bins_buffer_u32 |-> 0],
                 numt_lims(ds.gradient_lims))

\* the categories given to construct_bitvecs with the column read at the
\* position in example_sel, not at the row it holds
hicard_cats_by_position(col, example_sel_, super_cats) ==
    [p \in DOMAIN example_sel_ |-> super_cats[into_cat(col[p])]]

\* the categories given to construct_bitvecs: numt2cat over the iterator
hicard_cats(col, example_sel_, super_cats) ==
    [p \in DOMAIN example_sel_ |-> super_cats[into_cat(col[example_sel_[p]])]]

\* checks: the build checks integer overflow (debug) or wraps (release)
preprocess_hicard_cat(ds, d, g, feat_id, checks) ==
    LET n == Len0(ds.example_sel)
        col == d.features[feat_id]
        card == d.cards[feat_id]
        pairs == grad_stat_pairs(col, card, ds.example_sel, g)
        bins == hicard_bins(ds, d, g, feat_id)
        split_weights == hicard_split_weights(bins, numt_lims(ds.gradient_lims), n,
                                             ds.max_nbins)
        super_card == Len0(split_weights)
        super_cats == [c \in 0..card-1 |-> numt2cat(split_weights, category_mean(pairs[c]))]
        cats == hicard_cats(col, ds.example_sel, super_cats)
        cb == construct_bitvecs(ds.store, n, super_card, cats)
    IN  IF checks /\ hicard_rank_overflows(n, ds.max_nbins)
        THEN [ds EXCEPT !.bins_buffer_u32 = bins, !.panicked = TRUE]
        ELSE [ds EXCEPT !.bins_buffer_u32 = bins,
                        !.store = transform_bitvecs_to_ord(cb.store, cb.bitvecs),
                        !.bitvecs[feat_id] = cb.bitvecs,
                        !.super_categories[feat_id] = super_cats]

(***************************************************************************)
(* Dataset::preprocess_num.  Weights are counted in units of EPSILON.      *)
(***************************************************************************)
Abs(x) == IF x < 0 THEN -x ELSE x

\* gradient[i].abs() + EPSILON
grad_weight(g, i) == Abs(g[i]) * EPSILON_INV + 1

\* the loop inserting (data[i], weight of i) for the rows i of example_sel
RECURSIVE insert_values(_, _, _, _, _, _)
insert_values(col, example_sel_, g, p, bins, lims) ==
    IF p >= Len0(example_sel_) THEN bins
    ELSE insert_values(col, example_sel_, g, p + 1,
             binner_insert(bins, lims, col[example_sel_[p]],
                           grad_weight(g, example_sel_[p])),
             lims)

RECURSIVE grad_weight_sum(_, _, _)
grad_weight_sum(example_sel_, g, p) ==
    IF p >= Len0(example_sel_) THEN 0
    ELSE grad_weight(g, example_sel_[p]) + grad_weight_sum(example_sel_, g, p + 1)

\* the weights for i in 0..=max_nbins
num_weights_from_zero(sum, max_nbins_) ==
    [i \in 0..max_nbins_ |-> <<i * sum, max_nbins_ + 1>>]

\* i * weight_step for i in 1..=max_nbins, weight_step = sum / (max_nbins + 1)
num_weights(sum, max_nbins_) ==
    [i \in 0..max_nbins_-1 |-> <<(i + 1) * sum, max_nbins_ + 1>>]

num_split_values(bins, lims, sum, max_nbins_) ==
    dedup_bins(rank_iter(bins, num_weights(sum, max_nbins_)), 1, -1, lims,
               Len0(bins), <<>>)

\* preprocess_num with max_nbins bitsets for split_values.len() bitsets
preprocess_num_max_bitvecs(ds, d, g, feat_id) ==
    LET n == Len0(ds.example_sel)
        col == d.features[feat_id]
        lims == d.limits[feat_id]
        bins == insert_values(col, ds.example_sel, g, 0,
                              [b \in DOMAIN ds.bins_buffer_numt |-> 0], lims)
        sum == grad_weight_sum(ds.example_sel, g, 0)
        split_values_ == num_split_values(bins, lims, sum, ds.max_nbins)
        cats == [p \in 0..n-1 |-> numt2cat(split_values_, col[ds.example_sel[p]])]
        cb == construct_bitvecs(ds.store, n, ds.max_nbins, cats)
    IN  [ds EXCEPT !.bins_buffer_numt = bins,
                   !.store = transform_bitvecs_to_ord(cb.store, cb.bitvecs),
                   !.bitvecs[feat_id] = cb.bitvecs,
                   !.split_values[feat_id] = split_values_]

preprocess_num(ds, d, g, feat_id) ==
    LET n == Len0(ds.example_sel)
        col == d.features[feat_id]
        lims == d.limits[feat_id]
        bins == insert_values(col, ds.example_sel, g, 0,
                              [b \in DOMAIN ds.bins_buffer_numt |-> 0], lims)
        sum == grad_weight_sum(ds.example_sel, g, 0)
        split_values_ == num_split_values(bins, lims, sum, ds.max_nbins)
        cats == [p \in 0..n-1 |-> numt2cat(split_values_, col[ds.example_sel[p]])]
        cb == construct_bitvecs(ds.store, n, Len0(split_values_), cats)
    IN  [ds EXCEPT !.bins_buffer_numt = bins,
                   !.store = transform_bitvecs_to_ord(cb.store, cb.bitvecs),
                   !.bitvecs[feat_id] = cb.bitvecs,
                   !.split_values[feat_id] = split_values_]

(***************************************************************************)
(* Dataset::construct_again_no_reset.  A config is a record with the       *)
(* fields categorical_features, max_nbins, random_seed and, as numerators  *)
(* over FracDen, example_fraction and feature_fraction.                    *)
(***************************************************************************)
\* the loop over the selected features, from u on; a panic ends it
RECURSIVE preprocess_from(_, _, _, _, _)
preprocess_from(ds, d, g, u, checks) ==
    IF u >= Len0(ds.feat_sel) \/ ds.panicked THEN ds
    ELSE LET feat_id == ds.feat_sel[u]
             ft == d.ftypes[feat_id]
         IN  preprocess_from(
                 IF ft = LoCardCat THEN preprocess_locard_cat(ds, d, feat_id)
                 ELSE IF ft = HiCardCat
                      THEN preprocess_hicard_cat(ds, d, g, feat_id, checks)
                      ELSE preprocess_num(ds, d, g, feat_id),
                 d, g, u + 1, checks)

\* k = round(n * example_fraction)
examples_wanted(d, config) == Round(d.nexamples * config.example_fraction, FracDen)

\* l = round(m * feature_fraction)
features_wanted(d, config) == Round(d.nfeatures * config.feature_fraction, FracDen)

construct_again_no_reset(ds, d, g, config, checks) ==
    LET n == d.nexamples
        m == d.nfeatures
        k == examples_wanted(d, config)
        l == features_wanted(d, config)
        ds1 == [ds EXCEPT !.example_sel = resize(@, k, 0),
                          !.feat_sel = resize(@, l, 0),
                          !.bitvecs = resize(@, m, <<>>),
                          !.super_categories = resize(@, m, <<>>),
                          !.split_values = resize(@, m, <<>>)]
        ds2 == [ds1 EXCEPT !.example_sel = bagging(n, @, config.random_seed),
                           !.feat_sel = reservoir_sample(m, @,
                                            config.random_seed + FEAT_SEED_OFFSET)]
        ds3 == [ds2 EXCEPT !.gradient_lims = compute_gradient_lims(ds2.example_sel, g)]
    IN  preprocess_from(ds3, d, g, 0, checks)

\* Dataset::construct_from_data
construct_from_data(d, g, config, checks) ==
    construct_again_no_reset(Dataset_new(config.max_nbins), d, g, config, checks)

\* Dataset::construct_again
construct_again(ds, d, g, config, checks) ==
    construct_again_no_reset(reset(ds), d, g, config, checks)

(***************************************************************************)
(* The state: the Data read, the config of the latest call, and the fields *)
(* of the one Dataset built on the Data with its target as the gradient.   *)
(* status is "start" before from_csv, "data" once the Data is read,        *)
(* "built" after a construction that returned and "panicked" after one     *)
(* that did not.                                                           *)
(***************************************************************************)
VARIABLES status, csv, config, data, gradient, max_nbins, gradient_lims, feat_sel,
          example_sel, store, bitvecs, super_categories, split_values,
          bins_buffer_u32, bins_buffer_numt

vars == <<status, csv, config, data, gradient, max_nbins, gradient_lims, feat_sel,
          example_sel, store, bitvecs, super_categories, split_values,
          bins_buffer_u32, bins_buffer_numt>>

\* the Dataset as a record of its fields
Self ==
    [max_nbins |-> max_nbins,
     gradient_lims |-> gradient_lims,
     feat_sel |-> feat_sel,
     example_sel |-> example_sel,
     store |-> store,
     bitvecs |-> bitvecs,
     super_categories |-> super_categories,
     split_values |-> split_values,
     bins_buffer_u32 |-> bins_buffer_u32,
     bins_buffer_numt |-> bins_buffer_numt,
     panicked |-> status = "panicked"]

\* the call returns, leaving the Dataset as ds
Returns(ds) ==
    /\ status' = "built"
    /\ max_nbins' = ds.max_nbins
    /\ gradient_lims' = ds.gradient_lims
    /\ feat_sel' = ds.feat_sel
    /\ example_sel' = ds.example_sel
    /\ store' = ds.store
    /\ bitvecs' = ds.bitvecs
    /\ super_categories' = ds.super_categories
    /\ split_values' = ds.split_values
    /\ bins_buffer_u32' = ds.bins_buffer_u32
    /\ bins_buffer_numt' = ds.bins_buffer_numt

\* the call panics: it does not return and the Dataset is not used again
Panics ==
    /\ status' = "panicked"
    /\ UNCHANGED <<max_nbins, gradient_lims, feat_sel, example_sel, store,
                   bitvecs, super_categories, split_values, bins_buffer_u32,
                   bins_buffer_numt>>

\* the fields that are the texts of the whole numbers of a set
whole_fields(numbers) == {<<x, 1>> : x \in numbers}

\* the csv texts: NRows records of NFeat feature fields and a target field
CsvSet ==
    {text \in [0..NRows-1 ->
                  [0..NFeat -> whole_fields(-MaxGrad..Max2(MaxNBins, MaxGrad))]] :
        \A r \in 0..NRows-1 :
            /\ \A i \in 0..NFeat-1 : text[r][i] \in whole_fields(0..MaxNBins)
            /\ text[r][NFeat] \in whole_fields(-MaxGrad..MaxGrad)}

Seeds == {i * SeedStep : i \in 0..MaxSeed}

\* the configs given to from_csv: fractions and seed as Config::new leaves them
CsvConfigs ==
    [categorical_features : SUBSET (0..NFeat-1),
     max_nbins : {MaxNBins},
     random_seed : {0},
     example_fraction : {FracDen},
     feature_fraction : {FracDen}]

\* the configs given to a construction
Configs ==
    [categorical_features : SUBSET (0..NFeat-1),
     max_nbins : {MaxNBins},
     random_seed : Seeds,
     example_fraction : 1..FracDen,
     feature_fraction : {FracDen}]

Init ==
    /\ status = "start"
    /\ csv = <<>>
    /\ config = <<>>
    /\ data = <<>>
    /\ gradient = <<>>
    /\ max_nbins = 0
    /\ gradient_lims = <<0, 0>>
    /\ feat_sel = <<>>
    /\ example_sel = <<>>
    /\ store = <<>>
    /\ bitvecs = <<>>
    /\ super_categories = <<>>
    /\ split_values = <<>>
    /\ bins_buffer_u32 = <<>>
    /\ bins_buffer_numt = <<>>

\* Data::from_csv(config, csv) for a config of configs and a csv of csvs
FromCsv(configs, csvs) ==
    /\ status = "start"
    /\ \E cfg \in configs, text \in csvs :
        /\ from_csv(cfg, text).ok
        /\ config' = cfg
        /\ csv' = text
        /\ data' = from_csv(cfg, text)
    /\ status' = "data"
    /\ UNCHANGED <<gradient, max_nbins, gradient_lims, feat_sel, example_sel,
                   store, bitvecs, super_categories, split_values,
                   bins_buffer_u32, bins_buffer_numt>>

\* Data::get_target
get_target(d) == d.features[d.nfeatures]

\* a gradient slice holds whole numbers: the one of a target of whole numbers
whole_gradient(target) == [r \in DOMAIN target |-> target[r][1] \div target[r][2]]

\* Dataset::construct_from_data(config, data, data.get_target()) for a config
\* of configs that is the one of from_csv with its fractions and seed set, if
\* the target holds whole numbers.  A build that checks integer overflow
\* panics where one that does not goes on.
ConstructFromData(configs) ==
    /\ status = "data"
    /\ \A r \in DOMAIN get_target(data) :
           get_target(data)[r][2] # 0 /\ ~round_differs(get_target(data)[r])
    /\ \E cfg \in configs :
        /\ cfg.categorical_features = config.categorical_features
        /\ cfg.max_nbins = config.max_nbins
        /\ config' = cfg
        /\ LET g == whole_gradient(get_target(data))
               checked == construct_from_data(data, g, cfg, TRUE)
           IN  \/ ~checked.panicked /\ Returns(checked)
               \/ checked.panicked /\ Panics
               \/ checked.panicked
                  /\ Returns(construct_from_data(data, g, cfg, FALSE))
    /\ gradient' = whole_gradient(get_target(data))
    /\ UNCHANGED <<csv, data>>

\* Dataset::construct_again(config) for a config of configs
ConstructAgain(configs) ==
    /\ status = "built"
    /\ \E cfg \in configs :
        /\ cfg.categorical_features = config.categorical_features
        /\ config' = cfg
        /\ LET checked == construct_again(Self, data, gradient, cfg, TRUE)
           IN  \/ ~checked.panicked /\ Returns(checked)
               \/ checked.panicked /\ Panics
               \/ checked.panicked
                  /\ Returns(construct_again(Self, data, gradient, cfg, FALSE))
    /\ UNCHANGED <<csv, data, gradient>>

\* the config of a further round: the latest config with the next seed
AgainConfigs ==
    {[config EXCEPT !.random_seed = (@ + SeedStep) % ((MaxSeed + 1) * SeedStep)]}

\* a csv is read, a Dataset constructed from it and constructed again
Next ==
    \/ FromCsv(CsvConfigs, CsvSet)
    \/ ConstructFromData(Configs)
    \/ ConstructAgain(AgainConfigs)

Spec == Init /\ [][Next]_vars

(***************************************************************************)
(* The accessors of the Dataset.                                           *)
(***************************************************************************)
nexamples == Len0(example_sel)

feat_type(feat_id) == data.ftypes[feat_id]

get_max_nbins(feat_id) ==
    IF feat_type(feat_id) = LoCardCat THEN data.cards[feat_id] ELSE max_nbins

get_nbins(feat_id) == Len0(bitvecs[feat_id])

\* the bits set in get_bitvec(feat_id, split_id), a view of whole blocks
get_bitvec(feat_id, split_id) ==
    LET range == bitvecs[feat_id][split_id]
    IN  {i \in 0..((range[2] - range[1]) * BlockBits - 1) : get_bit(store, range, i)}

\* as a fraction
get_split_value(feat_id, split_id) ==
    IF feat_type(feat_id) = Numerical THEN split_values[feat_id][split_id]
    ELSE <<split_id, 1>>

get_super_category(feat_id, value) == super_categories[feat_id][into_cat(value)]

\* the value of feature feat_id in the row sampled at position p
sampled_value(feat_id, p) == data.features[feat_id][example_sel[p]]

\* the selected features of a type
selected(ftype) == {f \in Range0(feat_sel) : feat_type(f) = ftype}

\* the boundaries split_weights that preprocess_hicard_cat computed for a
\* selected HiCardCat feature of the Dataset as it stands
hicard_boundaries(feat_id) ==
    hicard_split_weights(hicard_bins(Self, data, gradient, feat_id),
                         numt_lims(gradient_lims), nexamples, max_nbins)

\* v is strictly increasing
StrictlyIncreasing(v) ==
    \A i \in DOMAIN v, j \in DOMAIN v : i < j => FracLt(v[i], v[j])

built == status = "built"

(***************************************************************************)
(* The properties of a Dataset that a construction returned.               *)
(***************************************************************************)
\* C1: after construct_from_data and after any later construct_again, for
\* every selected Numerical or HiCardCat feature and split ids i < j below
\* get_nbins, every bit set in get_bitvec(feat, i) is set in
\* get_bitvec(feat, j)
C1_Monotone ==
    built =>
        \A f \in selected(Numerical) \cup selected(HiCardCat) :
            \A i \in 0..get_nbins(f)-1, j \in 0..get_nbins(f)-1 :
                i < j => get_bitvec(f, i) \subseteq get_bitvec(f, j)

\* a Numerical feature with two bitsets, the first holding a row and the
\* second one more
C1_Witness ==
    /\ built
    /\ \E f \in selected(Numerical) :
        /\ get_nbins(f) = 2
        /\ get_bitvec(f, 0) # {}
        /\ get_bitvec(f, 0) # get_bitvec(f, 1)

\* C2: for every selected LoCardCat feature, bit p of get_bitvec(feat, c) is
\* set iff the row sampled at position p has category c, so that the bitsets
\* of the feature partition the positions 0..k-1
C2_OneHot ==
    built =>
        \A f \in selected(LoCardCat) :
            /\ get_nbins(f) = data.cards[f]
            /\ \A c \in 0..get_nbins(f)-1 :
                   get_bitvec(f, c) =
                       {p \in 0..nexamples-1 : into_cat(sampled_value(f, p)) = c}
            /\ \A p \in 0..nexamples-1 :
                   Cardinality({c \in 0..get_nbins(f)-1 : p \in get_bitvec(f, c)}) = 1

\* a LoCardCat feature with rows in category 0 and rows in category 1 in a
\* sample of the rows
C2_Witness ==
    /\ built
    /\ \E f \in selected(LoCardCat) :
        /\ get_bitvec(f, 0) # {}
        /\ get_nbins(f) >= 2
        /\ get_bitvec(f, 1) # {}
        /\ nexamples < data.nexamples

C4_SuperCategorySplit ==
    built =>
        \A f \in selected(HiCardCat) :
            \A k \in 0..get_nbins(f)-1 :
                get_bitvec(f, k) =
                    {p \in 0..nexamples-1 :
                        get_super_category(f, sampled_value(f, p)) <= k}

\* a HiCardCat feature with two bitsets and sampled rows of super-category 0
\* and of super-category 1
C4_Witness ==
    /\ built
    /\ \E f \in selected(HiCardCat) :
        /\ get_nbins(f) = 2
        /\ \E p \in 0..nexamples-1 : get_super_category(f, sampled_value(f, p)) = 0
        /\ \E p \in 0..nexamples-1 : get_super_category(f, sampled_value(f, p)) = 1

\* the number of rows a construction with the config samples
k_wanted == examples_wanted(data, config)

\* C6: when k = round(row_count * example_fraction) equals row_count,
\* examples() is 0, 1, ..., row_count-1 in order, whatever the random_seed
C6_IdentityBagging ==
    built /\ k_wanted = data.nexamples =>
        example_sel = [i \in 0..data.nexamples-1 |-> i]

\* every row in order under a seed with which sample gives other rows
C6_Witness ==
    /\ built
    /\ k_wanted = data.nexamples
    /\ example_sel = [i \in 0..data.nexamples-1 |-> i]
    /\ config.random_seed # 0
    /\ sample(data.nexamples, example_sel, config.random_seed) # example_sel

C8_SplitsIncrease ==
    built =>
        /\ \A f \in selected(Numerical) :
            /\ Len0(split_values[f]) = get_nbins(f)
            /\ StrictlyIncreasing(split_values[f])
        /\ \A f \in selected(HiCardCat) :
            /\ Len0(hicard_boundaries(f)) = get_nbins(f)
            /\ StrictlyIncreasing(hicard_boundaries(f))

\* the ranks of a Numerical feature landed in one bin, leaving one split
\* value where max_nbins allows more
C8_Witness ==
    /\ built
    /\ \E f \in selected(Numerical) :
        /\ get_nbins(f) = 1
        /\ max_nbins > 1
        /\ FracLt(data.limits[f][1], data.limits[f][2])

\* C9: after a construction with k = round(row_count * example_fraction)
\* other than row_count, examples() has k entries, each a row index below
\* row_count, in non-decreasing order
C9_SampleSorted ==
    built /\ k_wanted # data.nexamples =>
        /\ nexamples = k_wanted
        /\ \A p \in 0..nexamples-1 : example_sel[p] \in 0..data.nexamples-1
        /\ \A p \in 0..nexamples-1, q \in 0..nexamples-1 :
               p < q => example_sel[p] <= example_sel[q]

\* a sample holding a row twice and another row
C9_Witness ==
    /\ built
    /\ k_wanted # data.nexamples
    /\ \E p \in 0..nexamples-2 : example_sel[p] = example_sel[p + 1]
    /\ \E p \in 0..nexamples-2 : example_sel[p] < example_sel[p + 1]

(***************************************************************************)
(* reservoir_sample on its own: feat_sel is the buffer, resized as         *)
(* construct_again_no_reset resizes it for a Data of up to NPop feature    *)
(* columns, and the seeds produce every sequence of draws.                 *)
(***************************************************************************)
AllSeeds == 0..(Pow(RngMod, MaxDraws) - 1)

ReservoirConfigs ==
    [categorical_features : {{}},
     max_nbins : {MaxNBins},
     random_seed : AllSeeds,
     example_fraction : {FracDen},
     feature_fraction : 0..FracDen]

ReservoirInit ==
    /\ status = "buffer"
    /\ csv = <<>>
    /\ config \in ReservoirConfigs
    /\ data \in [nfeatures : 0..NPop]
    /\ feat_sel = resize(<<>>, features_wanted(data, config), 0)
    /\ gradient = <<>>
    /\ max_nbins = 0
    /\ gradient_lims = <<0, 0>>
    /\ example_sel = <<>>
    /\ store = <<>>
    /\ bitvecs = <<>>
    /\ super_categories = <<>>
    /\ split_values = <<>>
    /\ bins_buffer_u32 = <<>>
    /\ bins_buffer_numt = <<>>

\* reservoir_sample(m, &mut self.feat_sel, config.random_seed + 10)
ReservoirSample ==
    /\ status = "buffer"
    /\ feat_sel' = reservoir_sample(data.nfeatures, feat_sel,
                                    config.random_seed + FEAT_SEED_OFFSET)
    /\ status' = "sampled"
    /\ UNCHANGED <<csv, config, data, gradient, max_nbins, gradient_lims, example_sel,
                   store, bitvecs, super_categories, split_values,
                   bins_buffer_u32, bins_buffer_numt>>

ReservoirNext == ReservoirSample

SpecReservoir == ReservoirInit /\ [][ReservoirNext]_vars

\* C10: whatever the draws, reservoir_sample leaves a buffer of length
\* k <= n holding k indices below n in strictly ascending order, so that
\* feat_ids() has round(feature_count * feature_fraction) distinct entries,
\* none of them the index feature_count of the target column
C10_ReservoirDistinct ==
    status = "sampled" =>
        /\ Len0(feat_sel) = features_wanted(data, config)
        /\ \A u \in DOMAIN feat_sel : feat_sel[u] \in 0..data.nfeatures-1
        /\ \A u \in DOMAIN feat_sel, v \in DOMAIN feat_sel :
               u < v => feat_sel[u] < feat_sel[v]

\* a buffer in which a draw put a later index in the place of an earlier one
C10_Witness ==
    /\ status = "sampled"
    /\ Len0(feat_sel) >= 2
    /\ Len0(feat_sel) < data.nfeatures
    /\ feat_sel[0] # 0
    /\ feat_sel[Len0(feat_sel) - 1] = data.nfeatures - 1

(***************************************************************************)
(* Rounds: a Dataset constructed from a Data and constructed again, each   *)
(* time with any config, over the csv texts whose feature fields do not    *)
(* decrease from a record to the next and whose target is the same in      *)
(* every record.                                                           *)
(***************************************************************************)
RoundsCsvSet ==
    {text \in CsvSet :
        \A r \in 1..NRows-1 :
            /\ \A i \in 0..NFeat-1 : ~NumLt(text[r][i], text[r-1][i])
            /\ text[r][NFeat] = text[0][NFeat]}

RoundsCsvConfigs ==
    [categorical_features : SUBSET (0..NFeat-1),
     max_nbins : 1..MaxNBins,
     random_seed : {0},
     example_fraction : {FracDen},
     feature_fraction : {FracDen}]

RoundsConfigs ==
    [categorical_features : SUBSET (0..NFeat-1),
     max_nbins : 1..MaxNBins,
     random_seed : {0, SeedStep},
     example_fraction : 1..FracDen,
     feature_fraction : {1, FracDen}]

RoundsNext ==
    \/ FromCsv(RoundsCsvConfigs, RoundsCsvSet)
    \/ ConstructFromData(RoundsConfigs)
    \/ ConstructAgain(RoundsConfigs)

SpecRounds == Init /\ [][RoundsNext]_vars

\* the bits of bitset split_id of a feature in a Dataset ds
bitvec_of(ds, feat_id, split_id) ==
    LET range == ds.bitvecs[feat_id][split_id]
    IN  {i \in 0..((range[2] - range[1]) * BlockBits - 1) :
            get_bit(ds.store, range, i)}

\* the Dataset has the example_sel, the feat_sel and, for every selected
\* feature, the bitsets of the Dataset ds
SameSelectionAndBits(ds) ==
    /\ ~ds.panicked
    /\ example_sel = ds.example_sel
    /\ feat_sel = ds.feat_sel
    /\ \A f \in Range0(feat_sel) :
        /\ get_nbins(f) = Len0(ds.bitvecs[f])
        /\ \A k \in 0..get_nbins(f)-1 : get_bitvec(f, k) = bitvec_of(ds, f, k)

\* C5: the Dataset a construction with a config returns has the example_sel,
\* the feat_sel and the bitsets of a Dataset constructed from the same
\* config, Data and gradient and nothing else, in one of the two builds
C5_Reproducible ==
    built =>
        \E checks \in BOOLEAN :
            SameSelectionAndBits(construct_from_data(data, gradient, config, checks))

\* the accessors of the Dataset answer, for every feature of the Data, as
\* those of the Dataset ds do: examples(), feat_ids(), get_nbins,
\* get_max_nbins, get_bitvec, get_split_value and get_super_category
SameObservableState(ds) ==
    /\ ~ds.panicked
    /\ example_sel = ds.example_sel
    /\ feat_sel = ds.feat_sel
    /\ \A f \in 0..data.nfeatures-1 :
        /\ get_nbins(f) = Len0(ds.bitvecs[f])
        /\ get_max_nbins(f) =
               IF feat_type(f) = LoCardCat THEN data.cards[f] ELSE ds.max_nbins
        /\ \A k \in 0..get_nbins(f)-1 :
            /\ get_bitvec(f, k) = bitvec_of(ds, f, k)
            /\ feat_type(f) = Numerical =>
                   get_split_value(f, k) = ds.split_values[f][k]
        /\ super_categories[f] = ds.super_categories[f]

\* C11: after construct_from_data and any number of construct_again calls,
\* the last one with any config, the observable state of the Dataset
\* (examples(), feat_ids() and, for every feature, get_nbins, get_max_nbins,
\* get_bitvec, get_split_value and get_super_category) is that of a fresh
\* construct_from_data with that config, the Data and the gradient, in one of
\* the two builds, and a feature that is not selected has no bins
C11_AgainIsFresh ==
    built =>
        /\ \E checks \in BOOLEAN :
               SameObservableState(construct_from_data(data, gradient, config, checks))
        /\ \A f \in 0..data.nfeatures-1 :
               f \notin Range0(feat_sel) => get_nbins(f) = 0

(***************************************************************************)
(* Wide: the rounds of a Dataset over a Data of WideRows rows and WideFeat *)
(* features, the target being WideTarget in every record.                  *)
(***************************************************************************)
WideRows == 2

WideFeat == 2

WideTarget == 1

WideCsvSet ==
    [0..WideRows-1 ->
        {record \in [0..WideFeat -> whole_fields(0..Max2(MaxNBins, WideTarget))] :
            record[WideFeat] = <<WideTarget, 1>>}]

WideCsvConfigs ==
    [categorical_features : SUBSET (0..WideFeat-1),
     max_nbins : 1..MaxNBins,
     random_seed : {0},
     example_fraction : {FracDen},
     feature_fraction : {FracDen}]

WideConfigs ==
    [categorical_features : SUBSET (0..WideFeat-1),
     max_nbins : 1..MaxNBins,
     random_seed : {0, SeedStep},
     example_fraction : {1, FracDen},
     feature_fraction : {1, FracDen}]

WideNext ==
    \/ FromCsv(WideCsvConfigs, WideCsvSet)
    \/ ConstructFromData(WideConfigs)
    \/ ConstructAgain(WideConfigs)

SpecWide == Init /\ [][WideNext]_vars

\* the bitsets the Dataset holds a range for, as (feature, split id)
held_ranges ==
    UNION {{<<f, k>> : k \in 0..get_nbins(f)-1} : f \in DOMAIN bitvecs}

\* the range lies inside the storage of the store
InsideStore(range) == 0 <= range[1] /\ range[1] <= range[2] /\ range[2] <= Len0(store)

\* two ranges share no block
Disjoint(r0, r1) == r0[2] <= r1[1] \/ r1[2] <= r0[1]

range_bits(range) == (range[2] - range[1]) * BlockBits

CsvRows == 2

CsvFields ==
    whole_fields(-1..MaxNBins)
        \cup {<<>>, <<1, 2>>, <<U32_MAX + 1, 1>>, POS_INF, <<0, 0>>}

CsvTexts == [0..CsvRows-1 -> [0..NFeat -> CsvFields]]

CsvTextConfigs ==
    [categorical_features : SUBSET (0..NFeat),
     max_nbins : 1..MaxNBins,
     random_seed : {0},
     example_fraction : {FracDen},
     feature_fraction : {FracDen}]

\* Data::from_csv(config, csv) returning an Err
FromCsvFails(configs, csvs) ==
    /\ status = "start"
    /\ \E cfg \in configs, text \in csvs :
        /\ ~from_csv(cfg, text).ok
        /\ config' = cfg
        /\ csv' = text
        /\ data' = from_csv(cfg, text)
    /\ status' = "error"
    /\ UNCHANGED <<gradient, max_nbins, gradient_lims, feat_sel, example_sel,
                   store, bitvecs, super_categories, split_values,
                   bins_buffer_u32, bins_buffer_numt>>

CsvNext ==
    \/ FromCsv(CsvTextConfigs, CsvTexts)
    \/ FromCsvFails(CsvTextConfigs, CsvTexts)

SpecCsv == Init /\ [][CsvNext]_vars

\* from_csv returned: a Data or an error
read == status \in {"data", "error"}

\* Data::feat_type and Data::feat_card of the Data read
data_feat_type(feat_id) == data.ftypes[feat_id]

feat_card(feat_id) == data.cards[feat_id]

\* C14: in the Data that from_csv returns, a column marked categorical is
\* LoCardCat iff its cardinality is below max_nbins and HiCardCat iff its
\* cardinality is max_nbins or more, and a column not marked categorical is
\* Numerical
C14_CardThreshold ==
    status = "data" =>
        \A i \in 0..data.nfeatures :
            IF i \in config.categorical_features
            THEN /\ data_feat_type(i) = LoCardCat <=> feat_card(i) < config.max_nbins
                 /\ data_feat_type(i) = HiCardCat <=> feat_card(i) >= config.max_nbins
            ELSE data_feat_type(i) = Numerical

\* the field is the text of a whole number that is not negative
is_category(field) ==
    /\ parses(field)
    /\ field[2] # 0
    /\ field[1] % field[2] = 0
    /\ field[1] >= 0

\* the record has a field that is no number or, in a column marked
\* categorical, a field that is no whole number or a negative one
offending(r) ==
    \E i \in DOMAIN csv[r] :
        \/ ~parses(csv[r][i])
        \/ i \in config.categorical_features /\ ~is_category(csv[r][i])

\* C15: from_csv returns an error naming the first offending record, and no
\* Data, whenever a field is no number or a column marked categorical holds a
\* value that is negative or no whole number; the Data it returns holds only
\* whole numbers from 0 on in the columns marked categorical
C15_RejectsBadFields ==
    read =>
        /\ (\E r \in DOMAIN csv : offending(r)) =>
               /\ status = "error"
               /\ ~data.ok
               /\ offending(data.record)
               /\ \A r \in 0..data.record-1 : ~offending(r)
        /\ status = "data" =>
               \A r \in DOMAIN csv, i \in config.categorical_features :
                   i \in DOMAIN csv[r] => is_category(csv[r][i])

\* the largest of the values of column i of the csv, whole numbers
largest_value(i) ==
    CHOOSE x \in {csv[r][i][1] : r \in DOMAIN csv} :
        \A r \in DOMAIN csv : csv[r][i][1] <= x

\* C16: in the Data that from_csv returns, feat_card of a column marked
\* categorical is its largest value plus one, every value of the column being
\* a category below feat_card, and feat_card of any other column is 0
C16_CardIsMaxPlusOne ==
    status = "data" =>
        \A i \in 0..data.nfeatures :
            IF i \in config.categorical_features
            THEN /\ \A r \in DOMAIN csv : is_category(csv[r][i])
                 /\ feat_card(i) = largest_value(i) + 1
                 /\ \A r \in DOMAIN csv : into_cat(data.features[i][r]) < feat_card(i)
            ELSE feat_card(i) = 0

(***************************************************************************)
(* Dataset::get_super_category as a call that returns or panics.  checks:  *)
(* the build has debug assertions.                                         *)
(***************************************************************************)
\* the panics of the call
AssertionFailed == "assertion failed: left == right"

IndexOutOfBounds == "index out of bounds"

\* that call without the debug_assert_eq
get_super_category_unasserted(feat_id, value, checks) ==
    IF /\ feat_id \in DOMAIN super_categories
       /\ into_cat(value) \in DOMAIN super_categories[feat_id]
    THEN [returns |-> TRUE, value |-> super_categories[feat_id][into_cat(value)]]
    ELSE [returns |-> FALSE, panic |-> IndexOutOfBounds]

get_super_category_call(feat_id, value, checks) ==
    IF checks /\ feat_type(feat_id) # HiCardCat
    THEN [returns |-> FALSE, panic |-> AssertionFailed]
    ELSE IF /\ feat_id \in DOMAIN super_categories
            /\ into_cat(value) \in DOMAIN super_categories[feat_id]
         THEN [returns |-> TRUE, value |-> super_categories[feat_id][into_cat(value)]]
         ELSE [returns |-> FALSE, panic |-> IndexOutOfBounds]

\* the values a caller has for a feature: those of its column
column_values(feat_id) == Range0(data.features[feat_id])

\* C17 as stated: get_super_category returns a value only for a HiCardCat
\* feature, and for a Numerical or LoCardCat feature it fails with an
\* assertion failure, whatever the build
C17_AssertionFails ==
    built =>
        \A f \in 0..data.nfeatures-1, checks \in BOOLEAN :
            \A value \in column_values(f) :
                LET call == get_super_category_call(f, value, checks)
                IN  /\ call.returns => feat_type(f) = HiCardCat
                    /\ feat_type(f) # HiCardCat =>
                           ~call.returns /\ call.panic = AssertionFailed

\* C17 amended: get_super_category returns a value only for a HiCardCat
\* feature; for a Numerical or LoCardCat feature it panics, with the
\* assertion failure in a build with debug assertions and with the index out
\* of bounds of the feature's empty table in a build without
C17_FailsOnOtherTypes ==
    built =>
        \A f \in 0..data.nfeatures-1, checks \in BOOLEAN :
            \A value \in column_values(f) :
                LET call == get_super_category_call(f, value, checks)
                IN  /\ call.returns => feat_type(f) = HiCardCat
                    /\ feat_type(f) # HiCardCat =>
                           /\ ~call.returns
                           /\ call.panic = IF checks THEN AssertionFailed
                                           ELSE IndexOutOfBounds

\* a Dataset with bitsets for a LoCardCat feature, for which the call panics
\* in both builds
C17_Witness ==
    /\ built
    /\ \E f \in selected(LoCardCat) :
        /\ get_nbins(f) >= 2
        /\ \E value \in column_values(f) :
               /\ ~get_super_category_call(f, value, TRUE).returns
               /\ ~get_super_category_call(f, value, FALSE).returns

\* the sum of the gradients of the rows sampled at the positions from p on
\* whose category in feature feat_id is c
RECURSIVE selected_gradient_sum(_, _, _)
selected_gradient_sum(feat_id, c, p) ==
    IF p >= nexamples THEN 0
    ELSE (IF into_cat(sampled_value(feat_id, p)) = c THEN gradient[example_sel[p]]
          ELSE 0) + selected_gradient_sum(feat_id, c, p + 1)

\* C18: for every selected HiCardCat feature and every category c, the pair
\* that preprocess_hicard_cat accumulates is (the sum of the gradients of the
\* sampled rows of category c, the number of sampled positions of category
\* c): position p adds the gradient of row example_sel[p]
C18_GradientOfSampledRow ==
    built =>
        \A f \in selected(HiCardCat) :
            LET pairs == grad_stat_pairs(data.features[f], feat_card(f),
                                         example_sel, gradient)
            IN  \A c \in 0..feat_card(f)-1 :
                    /\ pairs[c][1] = selected_gradient_sum(f, c, 0)
                    /\ pairs[c][2] =
                           Cardinality({p \in 0..nexamples-1 :
                                           into_cat(sampled_value(f, p)) = c})

\* the gradients of the sampled rows
sampled_gradients == {gradient[example_sel[p]] : p \in 0..nexamples-1}

\* C19: after every construction, gradient_lims, which the round sets before
\* it preprocesses a feature, is (the least, the largest) of the gradients
\* of the sampled rows, whatever their signs
C19_GradientLims ==
    built =>
        /\ gradient_lims[1] \in sampled_gradients
        /\ gradient_lims[2] \in sampled_gradients
        /\ \A t \in sampled_gradients : gradient_lims[1] <= t /\ t <= gradient_lims[2]

(***************************************************************************)
(* Bitsets: transform_bitvecs_to_ord over a store of StoreBlocks blocks    *)
(* with any bits set and any up to MaxBitvecs distinct one-block ranges of *)
(* it, in any order.                                                       *)
(***************************************************************************)
StoreBlocks == 4

MaxBitvecs == 3

\* the vectors of m distinct one-block ranges
BitvecRanges(m) ==
    {[i \in 0..m-1 |-> <<v[i], v[i] + 1>>] :
        v \in {w \in [0..m-1 -> 0..StoreBlocks-1] :
                  \A i \in 0..m-1, j \in 0..m-1 : i # j => w[i] # w[j]}}

BitsetsInit ==
    /\ status = "bitvecs"
    /\ store \in [0..StoreBlocks-1 -> SUBSET (0..BlockBits-1)]
    /\ \E m \in 1..MaxBitvecs : \E ranges \in BitvecRanges(m) :
           bitvecs = [f \in {0} |-> ranges]
    /\ csv = <<>>
    /\ config = <<>>
    /\ data = <<>>
    /\ gradient = <<>>
    /\ max_nbins = 0
    /\ gradient_lims = <<0, 0>>
    /\ feat_sel = <<>>
    /\ example_sel = <<>>
    /\ super_categories = <<>>
    /\ split_values = <<>>
    /\ bins_buffer_u32 = <<>>
    /\ bins_buffer_numt = <<>>

\* transform_bitvecs_to_ord(&mut self.store, &bitvecs)
TransformToOrd ==
    /\ status = "bitvecs"
    /\ store' = transform_bitvecs_to_ord(store, bitvecs[0])
    /\ status' = "ordered"
    /\ UNCHANGED <<csv, config, data, gradient, max_nbins, gradient_lims,
                   feat_sel, example_sel, bitvecs, super_categories,
                   split_values, bins_buffer_u32, bins_buffer_numt>>

BitsetsNext == TransformToOrd

SpecBitsets == BitsetsInit /\ [][BitsetsNext]_vars

\* the bits set in a range of a store
bits_of(st, range) == {i \in 0..range_bits(range)-1 : get_bit(st, range, i)}

\* the blocks of the store that no range of the bitsets covers
blocks_outside ==
    {b \in DOMAIN store :
        \A i \in DOMAIN bitvecs[0] : b < bitvecs[0][i][1] \/ b >= bitvecs[0][i][2]}

\* C20: transform_bitvecs_to_ord over the bitsets b_0..b_{m-1} leaves bitset
\* i with the bits of b_0 OR ... OR b_i of the contents before it, b_0 as it
\* was, which is what ORing each accumulated bitset into its successor from
\* the first pair to the last gives, and leaves every block outside the
\* ranges as it was
C20_PrefixOr ==
    [][status' = "ordered" =>
          /\ \A i \in DOMAIN bitvecs[0] :
                 bits_of(store', bitvecs[0][i]) =
                     UNION {bits_of(store, bitvecs[0][j]) : j \in 0..i}
          /\ DOMAIN store' = DOMAIN store
          /\ \A b \in blocks_outside : store'[b] = store[b]]_vars

\* three bitsets after the transform, the last with a bit that the second
\* has not and the second with a bit that the first has not, the ranges not
\* in the order of their blocks, and bits set in a block outside them
C20_Witness ==
    /\ status = "ordered"
    /\ Len0(bitvecs[0]) = 3
    /\ bits_of(store, bitvecs[0][0]) # {}
    /\ bits_of(store, bitvecs[0][1]) # bits_of(store, bitvecs[0][0])
    /\ bits_of(store, bitvecs[0][2]) # {}
    /\ bitvecs[0][2][1] < bitvecs[0][0][1]
    /\ \E b \in blocks_outside : store[b] # {}

(***************************************************************************)
(* The mapping of categories to super-categories.                          *)
(***************************************************************************)
\* the pairs (gradient sum, count) that preprocess_hicard_cat collected for
\* feature feat_id of the Dataset as it stands
hicard_pairs(feat_id) ==
    grad_stat_pairs(data.features[feat_id], data.cards[feat_id], example_sel,
                    gradient)

\* the mean of category c of feature feat_id in the binary search
hicard_mean(feat_id, c) == category_mean(hicard_pairs(feat_id)[c])

\* the number of boundaries strictly less than x
boundaries_below(v, x) == Cardinality({k \in DOMAIN v : FracLt(v[k], x)})

\* C21: for every selected HiCardCat feature, every category c below the
\* cardinality is mapped to the number of boundaries strictly less than the
\* mean of c; the binary search ends without a match, and a mean equal to
\* boundary k is mapped to k, the lower bucket
C21_SuperCategoryIsRank ==
    built =>
        \A f \in selected(HiCardCat) :
            /\ DOMAIN super_categories[f] = 0..data.cards[f]-1
            /\ \A c \in 0..data.cards[f]-1 :
                LET mean == hicard_mean(f, c)
                    found == binary_search_by(hicard_boundaries(f), mean)
                IN  /\ found[1] = "Err"
                    /\ super_categories[f][c] = found[2]
                    /\ super_categories[f][c] =
                           boundaries_below(hicard_boundaries(f), mean)
                    /\ \A k \in DOMAIN hicard_boundaries(f) :
                           hicard_boundaries(f)[k] = mean =>
                               super_categories[f][c] = k

\* a HiCardCat feature with two boundaries and a sampled category whose mean
\* is the second boundary, mapped to super-category 1
C21_Witness ==
    /\ built
    /\ \E f \in selected(HiCardCat) :
        /\ Len0(hicard_boundaries(f)) = 2
        /\ \E c \in 0..data.cards[f]-1 :
            /\ hicard_pairs(f)[c][2] > 0
            /\ FracLe(hicard_mean(f, c), hicard_boundaries(f)[1])
            /\ FracLe(hicard_boundaries(f)[1], hicard_mean(f, c))
            /\ super_categories[f][c] = 1

(***************************************************************************)
(* The rows of a HiCardCat feature and its bitsets.                        *)
(***************************************************************************)
\* the super-category of the row sampled at position p
sampled_super_category(feat_id, p) ==
    get_super_category(feat_id, sampled_value(feat_id, p))

\* C22 as stated: for every selected HiCardCat feature the super-category of
\* every sampled row is a split id below get_nbins and the bit of the row is
\* set in the bitset of that super-category, so that no sampled row is left
\* out of all bitsets
C22_NoRowLeftOut ==
    built =>
        \A f \in selected(HiCardCat) :
            \A p \in 0..nexamples-1 :
                /\ sampled_super_category(f, p) < get_nbins(f)
                /\ p \in get_bitvec(f, sampled_super_category(f, p))

\* C22 as amended: for every selected HiCardCat feature one bitset exists
\* per boundary; the super-category of every sampled row is at most
\* get_nbins; the bit of a row whose super-category is below get_nbins is set
\* in the bitset of that super-category and in no earlier one, and a row whose
\* super-category is get_nbins, its mean being above the last boundary, is
\* in no bitset
C22_RowsUpToLastBoundary ==
    built =>
        \A f \in selected(HiCardCat) :
            /\ get_nbins(f) = Len0(hicard_boundaries(f))
            /\ \A p \in 0..nexamples-1 :
                LET id == sampled_super_category(f, p)
                IN  /\ id <= get_nbins(f)
                    /\ id < get_nbins(f) =>
                           /\ p \in get_bitvec(f, id)
                           /\ \A k \in 0..id-1 : p \notin get_bitvec(f, k)
                    /\ id = get_nbins(f) =>
                           \A k \in 0..get_nbins(f)-1 : p \notin get_bitvec(f, k)

\* a HiCardCat feature with two bitsets, a sampled row of super-category 1
\* and a sampled row of super-category 2, which is in neither bitset
C22_Witness ==
    /\ built
    /\ \E f \in selected(HiCardCat) :
        /\ get_nbins(f) = 2
        /\ \E p \in 0..nexamples-1 :
            /\ sampled_super_category(f, p) = 1
            /\ p \in get_bitvec(f, 1)
            /\ p \notin get_bitvec(f, 0)
        /\ \E p \in 0..nexamples-1 :
            /\ sampled_super_category(f, p) = 2
            /\ p \notin get_bitvec(f, 0) \cup get_bitvec(f, 1)

(***************************************************************************)
(* The ranks given to rank_iter.                                           *)
(***************************************************************************)
\* v is non-decreasing
NonDecreasing(v) ==
    \A i \in DOMAIN v, j \in DOMAIN v : i < j => FracLe(v[i], v[j])

\* the weights preprocess_num gives to rank_iter for the Dataset as it stands
num_ranks == num_weights(grad_weight_sum(example_sel, gradient, 0), max_nbins)

\* C23: no construction panics on its ranks, and after a construction of
\* n >= 1 sampled rows with max_nbins >= 1 the ranks given to rank_iter are
\* non-decreasing: the weights of a selected Numerical feature, and for a
\* selected HiCardCat feature the values round(i * n / (max_nbins + 1)) - 1
\* for i = 1..max_nbins, each of them in [0, n), none wrapped below zero
C23_RanksInRange ==
    /\ status # "panicked"
    /\ (built /\ nexamples >= 1 /\ max_nbins >= 1) =>
        /\ selected(Numerical) # {} => NonDecreasing(num_ranks)
        /\ selected(HiCardCat) # {} =>
            LET ranks == hicard_ranks(nexamples, max_nbins)
            IN  /\ DOMAIN ranks = 0..max_nbins-1
                /\ NonDecreasing(ranks)
                /\ \A i \in 1..max_nbins :
                    /\ ranks[i - 1] =
                           <<hicard_rank_rounded(nexamples, max_nbins, i) - 1, 1>>
                    /\ 0 <= ranks[i - 1][1]
                    /\ ranks[i - 1][1] < nexamples

(***************************************************************************)
(* The split values and the bitsets of a Numerical feature.                *)
(***************************************************************************)
\* C24: after every construction, for every selected Numerical feature
\* the number of stored split values is get_nbins(feat): get_split_value and
\* get_bitvec are defined for the same split ids, which may be fewer than
\* max_nbins
C24_SplitValuePerBitvec ==
    built =>
        \A f \in selected(Numerical) :
            /\ Len0(split_values[f]) = get_nbins(f)
            /\ DOMAIN split_values[f] = DOMAIN bitvecs[f]
            /\ DOMAIN split_values[f] = 0..get_nbins(f)-1

\* a Numerical feature with a split value and a bitset per split id, fewer
\* of them than max_nbins because two weights fell in the same bin
C24_Witness ==
    /\ built
    /\ \E f \in selected(Numerical) :
        /\ get_nbins(f) >= 1
        /\ get_nbins(f) < max_nbins
        /\ Len0(split_values[f]) = get_nbins(f)
        /\ \A k \in 0..get_nbins(f)-1 :
               /\ get_split_value(f, k) = split_values[f][k]
               /\ get_bitvec(f, k) \subseteq 0..nexamples-1

============================================================================
